---- MODULE Spec2Model ----
(***************************************************************************)
(* A model of solution_05.py: the adjacency-map Graph, its three searches  *)
(* (bfs, a_star, tollways_algorithm) and the two lazy-deletion priority    *)
(* queues (PriorityQueue, TollWayPriorityQueue).                           *)
(*                                                                         *)
(* Python values are modelled as follows.                                  *)
(*   - None is the empty tuple <<>>, a value x that may be None is <<x>>.  *)
(*   - An insertion-ordered dict whose iteration order the code uses       *)
(*     (Graph.vertices, Vertex.adj) is a sequence; a dict that is only     *)
(*     looked up (back_edges, shortest, costs, locator) is a function.     *)
(*   - Edge weights and priorities are integers.                           *)
(*   - heapq's list is the set of its nodes: heappop removes the least     *)
(*     node under Python's list comparison, data[0] is that least node.    *)
(*   - One loop iteration of a search is one step.                         *)
(***************************************************************************)
EXTENDS Integers, Sequences, FiniteSets, TLC

VARIABLES
    size,       \* Graph.size
    vertices,   \* Graph.vertices: the Vertex records in insertion order
    pc,         \* "idle", the running call ("bfs", "a_star", "toll", "queue"),
                \* "done" (returned), "raised" or "diverged" (never returns)
    frame,      \* the locals of the running call
    result,     \* the value returned (<<>> before the return)
    raised      \* the exception raised ("" if none)

vars == <<size, vertices, pc, frame, result, raised>>

----------------------------------------------------------------------------
(* Bounds *)

NumV == 3        \* vertices of the graphs searched
MaxEdges == 3    \* edges of the graphs searched
MaxH == 1        \* largest value of a metric
MaxCoupons == 2  \* largest coupon budget of a tollways_algorithm call
NumVA == 4       \* the same for the graphs that a_star alone searches
MaxEdgesA == 4
MaxHA == 3
MaxOps == 4      \* pushes and updates of the queue on its own
MaxPriority == 2 \* its largest priority

AllIds == <<"A", "B", "C", "D", "E", "F">>
AbsentId == "Z"                      \* an id that is never a vertex
Weights == {0, 1, 5}
WeightsA == {1, 3}

None == <<>>
Some(x) == <<x>>

----------------------------------------------------------------------------
(* dict helpers *)

\* d[k] = val for a dict that is only looked up
Put(d, k, val) == [x \in (DOMAIN d) \cup {k} |-> IF x = k THEN val ELSE d[x]]

EmptyDict == [x \in {} |-> 0]

\* OrderedPut as d.setdefault(k, val): an existing key keeps its value
OrderedPutKeepingOld(d, k, val) ==
    IF \E i \in 1..Len(d) : d[i][1] = k THEN d ELSE Append(d, <<k, val>>)

\* d[k] = val for an insertion-ordered dict of <<key, value>> items: an
\* existing key keeps its position
OrderedPut(d, k, val) ==
    IF \E i \in 1..Len(d) : d[i][1] = k
    THEN [i \in 1..Len(d) |-> IF d[i][1] = k THEN <<k, val>> ELSE d[i]]
    ELSE Append(d, <<k, val>>)

\* d.get(k): <<value>> or None
OrderedGet(d, k) ==
    IF \E i \in 1..Len(d) : d[i][1] = k
    THEN Some(d[CHOOSE i \in 1..Len(d) : d[i][1] = k][2])
    ELSE None

----------------------------------------------------------------------------
(* Vertex and Graph *)

Vertex(id_init) == [id |-> id_init, adj |-> <<>>, visited |-> FALSE]

EmptyGraph == [size |-> 0, vertices |-> <<>>]

VertexIds(g) == {g.vertices[i].id : i \in 1..Len(g.vertices)}

\* self.vertices.get(vertex_id): <<vertex>> or None
get_vertex_by_id(g, vertex_id) ==
    IF vertex_id \in VertexIds(g)
    THEN Some(g.vertices[CHOOSE i \in 1..Len(g.vertices) : g.vertices[i].id = vertex_id])
    ELSE None

\* AdjOf that reads the visited flag: a visited vertex shows no edges
AdjOfUnvisited(g, vertex_id) ==
    IF get_vertex_by_id(g, vertex_id)[1].visited
    THEN <<>>
    ELSE get_vertex_by_id(g, vertex_id)[1].adj

AdjOf(g, vertex_id) == get_vertex_by_id(g, vertex_id)[1].adj

\* add_to_graph with self.size += 1 moved out of the second if
add_to_graphCountingEnd(g, begin_id, end_id, weight) ==
    LET g1 == IF \E i \in 1..Len(g.vertices) : g.vertices[i].id = begin_id
              THEN g
              ELSE [size |-> g.size + 1,
                    vertices |-> Append(g.vertices, Vertex(begin_id))]
    IN  IF end_id = None THEN g1
        ELSE
          LET e == end_id[1]
              g2 == IF \E i \in 1..Len(g1.vertices) : g1.vertices[i].id = e
                    THEN [g1 EXCEPT !.size = @ + 1]
                    ELSE [size |-> g1.size + 1,
                          vertices |-> Append(g1.vertices, Vertex(e))]
          IN [g2 EXCEPT !.vertices =
                [i \in 1..Len(g2.vertices) |->
                    IF g2.vertices[i].id = begin_id
                    THEN [g2.vertices[i] EXCEPT !.adj = OrderedPut(@, e, weight)]
                    ELSE g2.vertices[i]]]

\* add_to_graph without the second if: the end vertex is not created
add_to_graphNoEndVertex(g, begin_id, end_id, weight) ==
    LET g1 == IF \E i \in 1..Len(g.vertices) : g.vertices[i].id = begin_id
              THEN g
              ELSE [size |-> g.size + 1,
                    vertices |-> Append(g.vertices, Vertex(begin_id))]
    IN  IF end_id = None THEN g1
        ELSE [g1 EXCEPT !.vertices =
                [i \in 1..Len(g1.vertices) |->
                    IF g1.vertices[i].id = begin_id
                    THEN [g1.vertices[i] EXCEPT !.adj = OrderedPut(@, end_id[1], weight)]
                    ELSE g1.vertices[i]]]

add_to_graph(g, begin_id, end_id, weight) ==
    LET g1 == IF get_vertex_by_id(g, begin_id) = None
              THEN [size |-> g.size + 1,
                    vertices |-> Append(g.vertices, Vertex(begin_id))]
              ELSE g
    IN  IF end_id = None THEN g1
        ELSE
          LET e == end_id[1]
              g2 == IF get_vertex_by_id(g1, e) = None
                    THEN [size |-> g1.size + 1,
                          vertices |-> Append(g1.vertices, Vertex(e))]
                    ELSE g1
          IN [g2 EXCEPT !.vertices =
                [i \in 1..Len(g2.vertices) |->
                    IF g2.vertices[i].id = begin_id
                    THEN [g2.vertices[i] EXCEPT !.adj = OrderedPut(@, e, weight)]
                    ELSE g2.vertices[i]]]

\* A matrix is a sequence of rows; row 1 and column 1 hold the ids, the other
\* cells are None or <<weight>>.  Python's matrix[i][j] is matrix[i+1][j+1].
RECURSIVE AddRowVertices(_, _, _)
AddRowVertices(g, matrix, i) ==
    IF i > Len(matrix) THEN g
    ELSE AddRowVertices(add_to_graph(g, matrix[i][1], None, 1), matrix, i + 1)

RECURSIVE AddCells(_, _, _, _)
AddCells(g, matrix, i, j) ==
    IF i > Len(matrix) THEN g
    ELSE IF j > Len(matrix) THEN AddCells(g, matrix, i + 1, 2)
    ELSE AddCells(IF matrix[i][j] # None
                  THEN add_to_graph(g, matrix[i][1], Some(matrix[j][1]), matrix[i][j][1])
                  ELSE g,
                  matrix, i, j + 1)

matrix2graph(g, matrix) == AddCells(AddRowVertices(g, matrix, 2), matrix, 2, 2)

\* graph2matrix with the cell written as adj.get(v) or None: a weight of 0
\* becomes the no-edge cell
graph2matrixDroppingZero(g) ==
    LET n == Len(g.vertices)
    IN  IF g.size = 0 THEN None
        ELSE [i \in 1..(n + 1) |->
                [j \in 1..(n + 1) |->
                    IF i = 1 /\ j = 1 THEN None
                    ELSE IF i = 1 THEN g.vertices[j - 1].id
                    ELSE IF j = 1 THEN g.vertices[i - 1].id
                    ELSE IF OrderedGet(g.vertices[i - 1].adj, g.vertices[j - 1].id) = Some(0)
                    THEN None
                    ELSE OrderedGet(g.vertices[i - 1].adj, g.vertices[j - 1].id)]]

\* graph2matrix: the header row, then a row per vertex in the order of
\* self.vertices; None for an empty graph
graph2matrix(g) ==
    LET n == Len(g.vertices)
    IN  IF g.size = 0 THEN None
        ELSE [i \in 1..(n + 1) |->
                [j \in 1..(n + 1) |->
                    IF i = 1 /\ j = 1 THEN None
                    ELSE IF i = 1 THEN g.vertices[j - 1].id
                    ELSE IF j = 1 THEN g.vertices[i - 1].id
                    ELSE OrderedGet(g.vertices[i - 1].adj, g.vertices[j - 1].id)]]

\* unvisit_vertices
unvisit_vertices(vs) == [i \in 1..Len(vs) |-> [vs[i] EXCEPT !.visited = FALSE]]

get_edge_by_ids(g, begin_id, end_id) ==
    IF get_vertex_by_id(g, begin_id) # None /\ get_vertex_by_id(g, end_id) # None
    THEN LET weight == OrderedGet(AdjOf(g, begin_id), end_id)
         IN IF weight # None THEN Some(<<begin_id, end_id, weight[1]>>) ELSE None
    ELSE None

\* BuildPathLoop with get_edge_by_ids(path[-2], path[-1]): the arguments the
\* wrong way round
RECURSIVE BuildPathLoopSwapped(_, _, _, _, _, _)
BuildPathLoopSwapped(g, back_edges, begin_id, path, dist, steps) ==
    LET last == path[Len(path)]
    IN  IF last = begin_id
        THEN [kind |-> "return",
              value |-> <<[i \in 1..Len(path) |-> path[Len(path) + 1 - i]], dist>>]
        ELSE IF steps > Cardinality(DOMAIN back_edges)
        THEN [kind |-> "diverge", value |-> <<>>]
        ELSE IF last \notin DOMAIN back_edges
        THEN [kind |-> "raise", value |-> "TypeError"]
        ELSE LET prev == back_edges[last]
                 edge == get_edge_by_ids(g, last, prev)
             IN IF edge = None
                THEN [kind |-> "raise", value |-> "TypeError"]
                ELSE BuildPathLoopSwapped(g, back_edges, begin_id, Append(path, prev),
                                          dist + edge[1][3], steps + 1)

\* build_path's loop.  path is the list built so far (end_id first).  The
\* outcome is a return, a TypeError (None[2]: no predecessor, or the pair is
\* no edge) or a loop that never ends: a chain that has taken more steps than
\* back_edges has keys is on a cycle that does not hold begin_id.
RECURSIVE BuildPathLoop(_, _, _, _, _, _)
BuildPathLoop(g, back_edges, begin_id, path, dist, steps) ==
    LET last == path[Len(path)]
    IN  IF last = begin_id
        THEN [kind |-> "return",
              value |-> <<[i \in 1..Len(path) |-> path[Len(path) + 1 - i]], dist>>]
        ELSE IF steps > Cardinality(DOMAIN back_edges)
        THEN [kind |-> "diverge", value |-> <<>>]
        ELSE IF last \notin DOMAIN back_edges
        THEN [kind |-> "raise", value |-> "TypeError"]
        ELSE LET prev == back_edges[last]
                 edge == get_edge_by_ids(g, prev, last)
             IN IF edge = None
                THEN [kind |-> "raise", value |-> "TypeError"]
                ELSE BuildPathLoop(g, back_edges, begin_id, Append(path, prev),
                                   dist + edge[1][3], steps + 1)

\* build_path without reversed(): the path from end_id back to begin_id
build_pathUnreversed(g, back_edges, begin_id, end_id) ==
    LET o == BuildPathLoop(g, back_edges, begin_id, <<end_id>>, 0, 0)
        path == o.value[1]
        n == Len(path)
    IN IF o.kind = "return"
       THEN [kind |-> "return", value |-> <<[i \in 1..n |-> path[n + 1 - i]], o.value[2]>>]
       ELSE o

build_path(g, back_edges, begin_id, end_id) ==
    BuildPathLoop(g, back_edges, begin_id, <<end_id>>, 0, 0)

TheGraph == [size |-> size, vertices |-> vertices]

NotFound == <<<<>>, 0>>      \* ([], 0.0)

\* what a call that ended with outcome o leaves in pc, result and raised
Finish(o) ==
    /\ pc' = IF o.kind = "return" THEN "done"
             ELSE IF o.kind = "raise" THEN "raised" ELSE "diverged"
    /\ result' = IF o.kind = "return" THEN o.value ELSE <<>>
    /\ raised' = IF o.kind = "raise" THEN o.value ELSE ""

----------------------------------------------------------------------------
(* bfs *)

\* BfsNeighbors with back_edges[next_id] = current_id moved out of the if
RECURSIVE BfsNeighborsOverwriting(_, _, _, _, _)
BfsNeighborsOverwriting(adj, i, current_id, distance, f) ==
    IF i > Len(adj) THEN f
    ELSE LET next_id == adj[i][1]
             weight == adj[i][2]
             f1 == [f EXCEPT !.back_edges = Put(@, next_id, current_id)]
         IN BfsNeighborsOverwriting(adj, i + 1, current_id, distance,
                IF next_id \notin f.v
                THEN [f1 EXCEPT !.v = @ \cup {next_id},
                                !.q = Append(@, <<next_id, distance + weight>>)]
                ELSE f1)

\* BfsNeighbors without v.add(next_id)
RECURSIVE BfsNeighborsNotMarking(_, _, _, _, _)
BfsNeighborsNotMarking(adj, i, current_id, distance, f) ==
    IF i > Len(adj) THEN f
    ELSE LET next_id == adj[i][1]
             weight == adj[i][2]
         IN BfsNeighborsNotMarking(adj, i + 1, current_id, distance,
                IF next_id \notin f.v
                THEN [f EXCEPT !.back_edges = Put(@, next_id, current_id),
                               !.q = Append(@, <<next_id, distance + weight>>)]
                ELSE f)

\* the for loop over self.vertices[current_id].adj.items(), from item i on
RECURSIVE BfsNeighbors(_, _, _, _, _)
BfsNeighbors(adj, i, current_id, distance, f) ==
    IF i > Len(adj) THEN f
    ELSE LET next_id == adj[i][1]
             weight == adj[i][2]
         IN BfsNeighbors(adj, i + 1, current_id, distance,
                IF next_id \notin f.v
                THEN [f EXCEPT !.v = @ \cup {next_id},
                               !.back_edges = Put(@, next_id, current_id),
                               !.q = Append(@, <<next_id, distance + weight>>)]
                ELSE f)

\* bfs(begin_id, end_id) up to the while loop
BfsCall ==
    /\ pc = "idle"
    /\ \E begin_id \in VertexIds(TheGraph) \cup {AbsentId},
          end_id \in VertexIds(TheGraph) \cup {AbsentId} :
         IF begin_id \notin VertexIds(TheGraph) \/ end_id \notin VertexIds(TheGraph)
         THEN /\ frame' = [op |-> "bfs", begin_id |-> begin_id, end_id |-> end_id]
              /\ Finish([kind |-> "return", value |-> NotFound])
         ELSE /\ frame' = [op |-> "bfs", begin_id |-> begin_id, end_id |-> end_id,
                           q |-> <<<<begin_id, 0>>>>, v |-> {begin_id},
                           back_edges |-> EmptyDict, dequeued |-> <<>>]
              /\ pc' = "bfs"
              /\ UNCHANGED <<result, raised>>
    /\ UNCHANGED <<size, vertices>>

\* one iteration of bfs's while loop; frame.dequeued logs the ids dequeued
BfsStep ==
    /\ pc = "bfs"
    /\ frame.q # <<>>
    /\ LET current_id == Head(frame.q)[1]
           distance == Head(frame.q)[2]
           f1 == [frame EXCEPT !.q = Tail(@), !.dequeued = Append(@, current_id)]
       IN IF current_id = frame.end_id
          THEN /\ frame' = f1
               /\ Finish(build_path(TheGraph, frame.back_edges, frame.begin_id, frame.end_id))
          ELSE /\ frame' = BfsNeighbors(AdjOf(TheGraph, current_id), 1, current_id, distance, f1)
               /\ UNCHANGED <<pc, result, raised>>
    /\ UNCHANGED <<size, vertices>>

\* BfsExhausted for a loop that does not test q.empty(): q.get() on the empty
\* SimpleQueue blocks, and the call never returns
BfsExhaustedBlocks ==
    /\ pc = "bfs"
    /\ frame.q = <<>>
    /\ Finish([kind |-> "diverge", value |-> <<>>])
    /\ UNCHANGED <<size, vertices, frame>>

\* the while loop ends with the queue empty
BfsExhausted ==
    /\ pc = "bfs"
    /\ frame.q = <<>>
    /\ Finish([kind |-> "return", value |-> NotFound])
    /\ UNCHANGED <<size, vertices, frame>>

\* bfs's while loop run to its end from locals f on graph g
RECURSIVE BfsLoop(_, _)
BfsLoop(g, f) ==
    IF f.q = <<>> THEN [kind |-> "return", value |-> NotFound]
    ELSE LET current_id == Head(f.q)[1]
             distance == Head(f.q)[2]
             f1 == [f EXCEPT !.q = Tail(@), !.dequeued = Append(@, current_id)]
         IN IF current_id = f.end_id
            THEN build_path(g, f.back_edges, f.begin_id, f.end_id)
            ELSE BfsLoop(g, BfsNeighbors(AdjOf(g, current_id), 1, current_id, distance, f1))

\* a whole call
bfs(g, begin_id, end_id) ==
    IF begin_id \notin VertexIds(g) \/ end_id \notin VertexIds(g)
    THEN [kind |-> "return", value |-> NotFound]
    ELSE BfsLoop(g, [op |-> "bfs", begin_id |-> begin_id, end_id |-> end_id,
                     q |-> <<<<begin_id, 0>>>>, v |-> {begin_id},
                     back_edges |-> EmptyDict, dequeued |-> <<>>])

----------------------------------------------------------------------------
(* PriorityQueue: nodes are [priority, count, vertex] lists, here
   <<priority, count, vertex>> with vertex <<id>> or None *)

Infinity == 1000     \* float('inf'): above every path cost of the model

EmptyQueue == [data |-> {}, locator |-> EmptyDict, counter |-> 0]

\* NodeLess backwards: a max-heap
NodeLessMax(a, b) == a[1] > b[1] \/ (a[1] = b[1] /\ a[Len(a) - 1] < b[Len(b) - 1])

\* NodeLess that compares the counts alone: a first-in first-out queue
NodeLessFifo(a, b) == a[Len(a) - 1] < b[Len(b) - 1]

\* NodeLess with ties between equal priorities going to the later count
NodeLessLastFirst(a, b) ==
    a[1] < b[1] \/ (a[1] = b[1] /\ a[Len(a) - 1] > b[Len(b) - 1])

\* NodeLess by priority and count alone: the items between them (the
\* coupons used, in a toll node) do not order the nodes
NodeLessByCount(a, b) ==
    a[1] < b[1] \/ (a[1] = b[1] /\ a[Len(a) - 1] < b[Len(b) - 1])

\* Python's list comparison a < b of two nodes (of either queue): counts are
\* unique, so the comparison never reaches the vertex, the last item
NodeLess(a, b) ==
    \E i \in 1..(Len(a) - 1) : a[i] < b[i] /\ \A j \in 1..(i - 1) : a[j] = b[j]

\* data[0], the node heappop returns
HeapMin(data) == CHOOSE n \in data : \A m \in data : m = n \/ NodeLess(n, m)

empty(pq) == pq.data = {}

push(pq, priority, id) ==
    LET node == <<priority, pq.counter, Some(id)>>
    IN [data |-> pq.data \cup {node},
        locator |-> Put(pq.locator, id, node),
        counter |-> pq.counter + 1]

\* Invalidate that leaves the node as it is
InvalidateNothing(data, node) == data

\* node[-1] = None on the list the locator held: the heap sees it if the
\* node is still in the heap
Invalidate(data, node) ==
    IF node \in data
    THEN (data \ {node}) \cup {[node EXCEPT ![Len(node)] = None]}
    ELSE data

Without(d, k) == [x \in (DOMAIN d) \ {k} |-> d[x]]

\* pop's first loop: heappop until a node with a vertex comes (IndexError on
\* an exhausted heap)
RECURSIVE PopValid(_)
PopValid(data) ==
    IF data = {} THEN [kind |-> "raise", value |-> "IndexError", data |-> data]
    ELSE LET n == HeapMin(data)
         IN IF n[Len(n)] = None THEN PopValid(data \ {n})
            ELSE [kind |-> "return", value |-> n, data |-> data \ {n}]

\* DrainNones for a pop without its last loop
DrainNonesNever(data) == data

\* pop's last loop: delete the invalidated nodes at the front
RECURSIVE DrainNones(_)
DrainNones(data) ==
    IF data # {} /\ HeapMin(data)[Len(HeapMin(data))] = None
    THEN DrainNones(data \ {HeapMin(data)})
    ELSE data

\* pop: [kind, value, pq]; value is <<priority, id>> on return.  The caller
\* sets the popped vertex's visited flag.
pop(pq) ==
    LET r == PopValid(pq.data)
    IN  IF r.kind = "raise" THEN [kind |-> "raise", value |-> r.value,
                                  pq |-> [pq EXCEPT !.data = r.data]]
        ELSE LET id == r.value[3][1]
             IN IF id \notin DOMAIN pq.locator
                THEN [kind |-> "raise", value |-> "KeyError",
                      pq |-> [pq EXCEPT !.data = r.data]]
                ELSE [kind |-> "return", value |-> <<r.value[1], id>>,
                      pq |-> [pq EXCEPT !.data = DrainNones(r.data),
                                        !.locator = Without(@, id)]]

\* update of an id the locator holds (KeyError otherwise, see QueueUpdate)
update(pq, new_priority, id) ==
    push([pq EXCEPT !.data = Invalidate(@, pq.locator[id]),
                    !.locator = Without(@, id)],
         new_priority, id)

\* SetVisited for a pop without vertex.visited = True
SetVisitedNever(vs, id) == vs

\* vertex.visited = True in pop, on the vertex of the graph with that id
SetVisited(vs, id) ==
    [i \in 1..Len(vs) |-> IF vs[i].id = id THEN [vs[i] EXCEPT !.visited = TRUE] ELSE vs[i]]

----------------------------------------------------------------------------
(* a_star.  metric is a callable the caller passes; a_star calls it as
   metric(vertex, end vertex) when it relaxes an edge into the vertex.  The
   model draws the value metric(v, end) when the search first asks for it and
   keeps it in frame.metric, so that metric is a function of v; the values
   nobody asks for are left open.  caps[end_id][v] is the largest value
   metric(v, end) may take. *)

Merge(d, e) == [x \in (DOMAIN d) \cup (DOMAIN e) |-> IF x \in DOMAIN d THEN d[x] ELSE e[x]]

\* the values metric(v, end) is drawn from for the vertices v of V: each is
\* 0 or the largest value cap[v] allows
RECURSIVE MetricValues(_, _)
MetricValues(V, cap) ==
    IF V = {} THEN {EmptyDict}
    ELSE LET x == CHOOSE y \in V : TRUE
         IN {Put(m, x, k) : m \in MetricValues(V \ {x}, cap), k \in {0, cap[x]}}

\* AStarNeighbors with a closed set: a vertex that was popped is never
\* relaxed again
RECURSIVE AStarNeighborsClosedSet(_, _, _, _)
AStarNeighborsClosedSet(adj, i, current_id, f) ==
    IF i > Len(adj) THEN f
    ELSE LET neighbor_id == adj[i][1]
             weight == adj[i][2]
             possible_path == f.shortest[current_id] + weight
         IN AStarNeighborsClosedSet(adj, i + 1, current_id,
              IF possible_path < f.shortest[neighbor_id]
                 /\ \A k \in 1..Len(f.popped) : f.popped[k] # neighbor_id
              THEN LET cost == possible_path + f.metric[neighbor_id]
                   IN [f EXCEPT !.old_vertices = Put(@, neighbor_id, current_id),
                                !.shortest[neighbor_id] = possible_path,
                                !.costs[neighbor_id] = cost,
                                !.open_vertices =
                                    IF neighbor_id \notin DOMAIN @.locator
                                    THEN push(@, cost, neighbor_id)
                                    ELSE update(@, cost, neighbor_id)]
              ELSE f)

\* the for loop over current_vertex.adj.items(), from item i on
RECURSIVE AStarNeighbors(_, _, _, _)
AStarNeighbors(adj, i, current_id, f) ==
    IF i > Len(adj) THEN f
    ELSE LET neighbor_id == adj[i][1]
             weight == adj[i][2]
             possible_path == f.shortest[current_id] + weight
         IN AStarNeighbors(adj, i + 1, current_id,
              IF possible_path < f.shortest[neighbor_id]
              THEN LET cost == possible_path + f.metric[neighbor_id]
                   IN [f EXCEPT !.old_vertices = Put(@, neighbor_id, current_id),
                                !.shortest[neighbor_id] = possible_path,
                                !.costs[neighbor_id] = cost,
                                !.open_vertices =
                                    IF neighbor_id \notin DOMAIN @.locator
                                    THEN push(@, cost, neighbor_id)
                                    ELSE update(@, cost, neighbor_id)]
              ELSE f)

\* a_star(begin_id, end_id, metric) up to the while loop, for begin_id in B
\* and end_id in E; frame.flagged logs the ids of the vertices whose visited
\* flag is set when the call starts
AStarCall(B, E, caps) ==
    /\ pc = "idle"
    /\ \E begin_id \in B, end_id \in E :
         IF begin_id \notin VertexIds(TheGraph) \/ end_id \notin VertexIds(TheGraph)
         THEN /\ frame' = [op |-> "a_star", begin_id |-> begin_id, end_id |-> end_id,
                           metric |-> EmptyDict]
              /\ Finish([kind |-> "return", value |-> NotFound])
         ELSE \E metric \in MetricValues({begin_id}, caps[end_id]) :
              /\ frame' = [op |-> "a_star", begin_id |-> begin_id, end_id |-> end_id,
                           metric |-> metric,
                           open_vertices |-> push(EmptyQueue, 0, begin_id),
                           old_vertices |-> EmptyDict,
                           shortest |-> [x \in VertexIds(TheGraph) |->
                                            IF x = begin_id THEN 0 ELSE Infinity],
                           costs |-> [x \in VertexIds(TheGraph) |->
                                            IF x = begin_id THEN metric[begin_id] ELSE Infinity],
                           popped |-> <<>>,
                           flagged |-> {vertices[i].id : i \in
                                          {j \in 1..Len(vertices) : vertices[j].visited}}]
              /\ pc' = "a_star"
              /\ UNCHANGED <<result, raised>>
    /\ UNCHANGED <<size, vertices>>

\* one iteration of a_star's while loop; frame.popped logs the ids popped
AStarStep(caps) ==
    /\ pc = "a_star"
    /\ ~empty(frame.open_vertices)
    /\ LET r == pop(frame.open_vertices)
       IN IF r.kind = "raise"
          THEN /\ frame' = [frame EXCEPT !.open_vertices = r.pq]
               /\ Finish(r)
               /\ UNCHANGED vertices
          ELSE LET current_id == r.value[2]
                   adj == AdjOf(TheGraph, current_id)
                   asked == {adj[i][1] : i \in 1..Len(adj)} \ DOMAIN frame.metric
                   f1 == [frame EXCEPT !.open_vertices = r.pq,
                                       !.popped = Append(@, current_id)]
               IN /\ vertices' = SetVisited(vertices, current_id)
                  /\ IF current_id = frame.end_id
                     THEN /\ frame' = f1
                          /\ Finish(build_path(TheGraph, frame.old_vertices,
                                               frame.begin_id, frame.end_id))
                     ELSE /\ \E drawn \in MetricValues(asked, caps[frame.end_id]) :
                               frame' = AStarNeighbors(adj, 1, current_id,
                                            [f1 EXCEPT !.metric = Merge(@, drawn)])
                          /\ UNCHANGED <<pc, result, raised>>
    /\ UNCHANGED size

\* the while loop ends with the queue empty
AStarExhausted ==
    /\ pc = "a_star"
    /\ empty(frame.open_vertices)
    /\ Finish([kind |-> "return", value |-> NotFound])
    /\ UNCHANGED <<size, vertices, frame>>

\* a_star's while loop run to its end from locals f on graph g, f.metric
\* holding metric(v, end) for every vertex v
RECURSIVE AStarLoop(_, _)
AStarLoop(g, f) ==
    IF empty(f.open_vertices) THEN [kind |-> "return", value |-> NotFound]
    ELSE LET r == pop(f.open_vertices)
         IN IF r.kind = "raise" THEN [kind |-> "raise", value |-> r.value]
            ELSE LET current_id == r.value[2]
                     f1 == [f EXCEPT !.open_vertices = r.pq,
                                     !.popped = Append(@, current_id)]
                 IN IF current_id = f.end_id
                    THEN build_path(g, f.old_vertices, f.begin_id, f.end_id)
                    ELSE AStarLoop(g, AStarNeighbors(AdjOf(g, current_id), 1,
                                                     current_id, f1))

\* a whole call with the metric v |-> metric[v]
a_star(g, begin_id, end_id, metric) ==
    IF begin_id \notin VertexIds(g) \/ end_id \notin VertexIds(g)
    THEN [kind |-> "return", value |-> NotFound]
    ELSE AStarLoop(g, [op |-> "a_star", begin_id |-> begin_id, end_id |-> end_id,
                       metric |-> metric,
                       open_vertices |-> push(EmptyQueue, 0, begin_id),
                       old_vertices |-> EmptyDict,
                       shortest |-> [x \in VertexIds(g) |->
                                        IF x = begin_id THEN 0 ELSE Infinity],
                       costs |-> [x \in VertexIds(g) |->
                                        IF x = begin_id THEN metric[begin_id] ELSE Infinity],
                       popped |-> <<>>])

----------------------------------------------------------------------------
(* TollWayPriorityQueue: nodes are <<priority, coupons_used, count, vertex>>,
   the locator's keys are <<id, coupons_used>> *)

toll_push(pq, priority, coupons_used, id) ==
    LET node == <<priority, coupons_used, pq.counter, Some(id)>>
    IN [data |-> pq.data \cup {node},
        locator |-> Put(pq.locator, <<id, coupons_used>>, node),
        counter |-> pq.counter + 1]

\* toll_pop with self.locator.pop(key, None) for del self.locator[key]: no
\* KeyError for a node whose key has left the locator
toll_popForgiving(pq) ==
    LET r == PopValid(pq.data)
    IN  IF r.kind = "raise" THEN [kind |-> "raise", value |-> r.value,
                                  pq |-> [pq EXCEPT !.data = r.data]]
        ELSE LET key == <<r.value[4][1], r.value[2]>>
             IN [kind |-> "return", value |-> <<r.value[1], r.value[2], r.value[4][1]>>,
                 pq |-> [pq EXCEPT !.data = DrainNones(r.data),
                                   !.locator = [x \in (DOMAIN @) \ {key} |-> @[x]]]]

\* pop: value is <<priority, coupon, id>> on return; on a KeyError the node
\* has left the heap
toll_pop(pq) ==
    LET r == PopValid(pq.data)
    IN  IF r.kind = "raise" THEN [kind |-> "raise", value |-> r.value,
                                  pq |-> [pq EXCEPT !.data = r.data]]
        ELSE LET key == <<r.value[4][1], r.value[2]>>
             IN IF key \notin DOMAIN pq.locator
                THEN [kind |-> "raise", value |-> "KeyError",
                      pq |-> [pq EXCEPT !.data = r.data]]
                ELSE [kind |-> "return", value |-> <<r.value[1], r.value[2], r.value[4][1]>>,
                      pq |-> [pq EXCEPT !.data = DrainNones(r.data),
                                        !.locator = Without(@, key)]]

toll_update(pq, new_priority, coupons_used, id) ==
    toll_push([pq EXCEPT !.data = Invalidate(@, pq.locator[<<id, coupons_used>>]),
                         !.locator = Without(@, <<id, coupons_used>>)],
              new_priority, coupons_used, id)

----------------------------------------------------------------------------
(* tollways_algorithm *)

\* Discounted rounding up
DiscountedUp(weight) == (weight + 1) \div 2

\* weight // 2
Discounted(weight) == weight \div 2

\* CouponLeft with <= for <
CouponLeftOrEqual(coupons_used, coupons) == coupons_used <= coupons

\* coupons_used < coupons: a coupon is left
CouponLeft(coupons_used, coupons) == coupons_used < coupons

\* the if that relaxes state (neighbor_id, k) with cost c
TollRelax(f, neighbor_id, k, c) ==
    IF <<neighbor_id, k>> \notin DOMAIN f.costs \/ c < f.costs[<<neighbor_id, k>>]
    THEN [f EXCEPT !.pq = toll_push(@, c, k, neighbor_id),
                   !.costs = Put(@, <<neighbor_id, k>>, c)]
    ELSE f

\* the for loop over current_vertex.adj.items(), from item i on
RECURSIVE TollNeighbors(_, _, _, _, _)
TollNeighbors(adj, i, current_cost, coupons_used, f) ==
    IF i > Len(adj) THEN f
    ELSE LET neighbor_id == adj[i][1]
             weight == adj[i][2]
             next_cost == current_cost + weight
             next_cost_coup == IF CouponLeft(coupons_used, f.coupons)
                               THEN current_cost + Discounted(weight)
                               ELSE current_cost + weight
             f1 == TollRelax(f, neighbor_id, coupons_used, next_cost)
             f2 == IF CouponLeft(coupons_used, f.coupons)
                   THEN TollRelax(f1, neighbor_id, coupons_used + 1, next_cost_coup)
                   ELSE f1
         IN TollNeighbors(adj, i + 1, current_cost, coupons_used, f2)

NoneNone == <<None, None>>      \* (None, None)

Continue == [kind |-> "continue", value |-> <<>>]

\* the locals of tollways_algorithm(start_id, target_id, coupons) when it
\* reaches the while loop
TollEntry(start_id, target_id, coupons) ==
    [op |-> "toll", begin_id |-> start_id, end_id |-> target_id, coupons |-> coupons,
     pq |-> toll_push(EmptyQueue, 0, 0, start_id),
     costs |-> Put(EmptyDict, <<start_id, 0>>, 0),
     popped |-> <<>>, discarded |-> <<>>]

\* except KeyError: continue
Caught(r) == r.kind = "raise" /\ r.value = "KeyError"

\* one iteration of the while loop from locals f: the locals after it and
\* how it ends (continue, return or raise).  f.popped logs the states
\* popped, f.discarded the nodes whose pop raised the KeyError that is caught
TollIteration(g, f) ==
    LET r == toll_pop(f.pq)
    IN  IF Caught(r)
        THEN [frame |-> [f EXCEPT !.pq = r.pq,
                                  !.discarded = Append(@, HeapMin(f.pq.data))],
              outcome |-> Continue]
        ELSE IF r.kind = "raise"
        THEN [frame |-> [f EXCEPT !.pq = r.pq],
              outcome |-> [kind |-> "raise", value |-> r.value]]
        ELSE LET current_cost == r.value[1]
                 coupons_used == r.value[2]
                 current_id == r.value[3]
                 f1 == [f EXCEPT !.pq = r.pq, !.popped = Append(@, r.value)]
             IN IF current_id = f.end_id
                THEN [frame |-> f1,
                      outcome |-> [kind |-> "return",
                                   value |-> <<Some(current_cost), Some(coupons_used)>>]]
                ELSE [frame |-> TollNeighbors(AdjOf(g, current_id), 1,
                                              current_cost, coupons_used, f1),
                      outcome |-> Continue]

\* the while loop run to its end from locals f
RECURSIVE TollLoop(_, _)
TollLoop(g, f) ==
    IF empty(f.pq) THEN [kind |-> "return", value |-> NoneNone]
    ELSE LET it == TollIteration(g, f)
         IN IF it.outcome.kind = "continue" THEN TollLoop(g, it.frame) ELSE it.outcome

\* a whole call
tollways_algorithm(g, start_id, target_id, coupons) ==
    IF start_id \notin VertexIds(g) \/ target_id \notin VertexIds(g)
    THEN [kind |-> "return", value |-> NoneNone]
    ELSE TollLoop(g, TollEntry(start_id, target_id, coupons))

\* tollways_algorithm(start_id, target_id, coupons) up to the while loop
TollCall ==
    /\ pc = "idle"
    /\ \E start_id \in VertexIds(TheGraph) \cup {AbsentId},
          target_id \in VertexIds(TheGraph) \cup {AbsentId}, coupons \in 0..MaxCoupons :
         IF start_id \notin VertexIds(TheGraph) \/ target_id \notin VertexIds(TheGraph)
         THEN /\ frame' = [op |-> "toll", begin_id |-> start_id, end_id |-> target_id,
                           coupons |-> coupons]
              /\ Finish([kind |-> "return", value |-> NoneNone])
         ELSE /\ frame' = TollEntry(start_id, target_id, coupons)
              /\ pc' = "toll"
              /\ UNCHANGED <<result, raised>>
    /\ UNCHANGED <<size, vertices>>

\* one iteration of the while loop
TollStep ==
    /\ pc = "toll"
    /\ ~empty(frame.pq)
    /\ LET it == TollIteration(TheGraph, frame)
       IN /\ frame' = it.frame
          /\ IF it.outcome.kind = "continue"
             THEN UNCHANGED <<pc, result, raised>>
             ELSE Finish(it.outcome)
    /\ UNCHANGED <<size, vertices>>

\* TollExhausted popping once more from the empty queue (a loop that does
\* not test pq.empty()): heappop raises IndexError
TollExhaustedPops ==
    /\ pc = "toll"
    /\ empty(frame.pq)
    /\ Finish([kind |-> "raise", value |-> toll_pop(frame.pq).value])
    /\ UNCHANGED <<size, vertices, frame>>

\* the while loop ends with the queue empty
TollExhausted ==
    /\ pc = "toll"
    /\ empty(frame.pq)
    /\ Finish([kind |-> "return", value |-> NoneNone])
    /\ UNCHANGED <<size, vertices, frame>>

----------------------------------------------------------------------------
(* The priority queue on its own: a client that pushes vertices that are not
   queued, updates vertices that are, and pops while the queue is not empty,
   as a_star does.  frame.live is the client's own record of what it has
   queued: id -> <<priority, stamp>>, the stamp counting its pushes and
   updates; frame.last is its last operation. *)

QueueNew ==
    /\ pc = "idle"
    /\ frame' = [op |-> "queue", pq |-> EmptyQueue, live |-> EmptyDict, stamp |-> 0,
                 last |-> [op |-> "new", value |-> <<>>, live |-> EmptyDict]]
    /\ pc' = "queue"
    /\ UNCHANGED <<size, vertices, result, raised>>

QueuePush ==
    /\ pc = "queue"
    /\ frame.stamp < MaxOps
    /\ \E id \in VertexIds(TheGraph) \ DOMAIN frame.live, priority \in 0..MaxPriority :
         frame' = [frame EXCEPT !.pq = push(@, priority, id),
                                !.live = Put(@, id, <<priority, frame.stamp>>),
                                !.stamp = @ + 1,
                                !.last = [op |-> "push", value |-> <<priority, id>>,
                                          live |-> frame.live]]
    /\ UNCHANGED <<size, vertices, pc, result, raised>>

QueueUpdate ==
    /\ pc = "queue"
    /\ frame.stamp < MaxOps
    /\ \E id \in DOMAIN frame.live, new_priority \in 0..MaxPriority :
         frame' = [frame EXCEPT !.pq = update(@, new_priority, id),
                                !.live = Put(@, id, <<new_priority, frame.stamp>>),
                                !.stamp = @ + 1,
                                !.last = [op |-> "update", value |-> <<new_priority, id>>,
                                          live |-> frame.live]]
    /\ UNCHANGED <<size, vertices, pc, result, raised>>

QueuePop ==
    /\ pc = "queue"
    /\ ~empty(frame.pq)
    /\ LET r == pop(frame.pq)
       IN IF r.kind = "raise"
          THEN /\ frame' = [frame EXCEPT !.pq = r.pq]
               /\ Finish(r)
               /\ UNCHANGED vertices
          ELSE /\ frame' = [frame EXCEPT !.pq = r.pq,
                                         !.live = Without(@, r.value[2]),
                                         !.last = [op |-> "pop", value |-> r.value,
                                                   live |-> frame.live]]
               /\ vertices' = SetVisited(vertices, r.value[2])
               /\ UNCHANGED <<pc, result, raised>>
    /\ UNCHANGED size

----------------------------------------------------------------------------
(* The graphs searched: Graph(matrix=m) for every matrix m whose ids are the
   first n of AllIds and that has at most maxEdges weight cells, drawn from
   W. *)

MatrixOf(ids, E, w) ==
    [i \in 1..(Len(ids) + 1) |->
        [j \in 1..(Len(ids) + 1) |->
            IF i = 1 /\ j = 1 THEN None
            ELSE IF i = 1 THEN ids[j - 1]
            ELSE IF j = 1 THEN ids[i - 1]
            ELSE IF <<i - 1, j - 1>> \in E THEN Some(w[<<i - 1, j - 1>>]) ELSE None]]

GraphOfMatrix(m) == matrix2graph(EmptyGraph, m)

InitWith(n, maxEdges, W) ==
    /\ \E E \in {S \in SUBSET ((1..n) \X (1..n)) : Cardinality(S) <= maxEdges} :
         \E w \in [E -> W] :
           LET g == GraphOfMatrix(MatrixOf([i \in 1..n |-> AllIds[i]], E, w))
           IN /\ size = g.size
              /\ vertices = g.vertices
    /\ pc = "idle"
    /\ frame = [op |-> "none"]
    /\ result = <<>>
    /\ raised = ""

----------------------------------------------------------------------------
(* Building a graph: a client that starts from Graph() and calls add_to_graph,
   matrix2graph, graph2matrix and unvisit_vertices, and pops vertices from a
   PriorityQueue (which sets their visited flags).  frame holds the call made
   last and its arguments, frame.ops and frame.imports count the calls. *)

MaxBuildOps == 4     \* calls that change the graph
MaxImports == 1      \* of them, matrix2graph calls
MatrixN == 2         \* vertices of an imported matrix
MaxCells == 1        \* its cells that hold a weight
BuildWeights == {0, 5}

BuildIds == {AllIds[i] : i \in 1..NumV}

\* the matrix with row headers rows, column headers cols and weight w[c] in
\* the cells c of E
BuildMatrix(rows, cols, E, w) ==
    [i \in 1..(Len(rows) + 1) |->
        [j \in 1..(Len(rows) + 1) |->
            IF i = 1 /\ j = 1 THEN None
            ELSE IF i = 1 THEN cols[j - 1]
            ELSE IF j = 1 THEN rows[i - 1]
            ELSE IF <<i - 1, j - 1>> \in E THEN Some(w[<<i - 1, j - 1>>]) ELSE None]]

\* the square matrices imported: over the first MatrixN ids, the column
\* headers being the row headers in any order
BuildMatrices ==
    LET Headers == {h \in [1..MatrixN -> {AllIds[i] : i \in 1..MatrixN}] :
                       \A i, j \in 1..MatrixN : h[i] = h[j] => i = j}
    IN UNION {UNION {{BuildMatrix(hh[1], hh[2], E, w) : w \in [E -> BuildWeights]} :
                       E \in {S \in SUBSET ((1..MatrixN) \X (1..MatrixN)) :
                                Cardinality(S) <= MaxCells}} :
                hh \in Headers \X Headers}

BuildAdd ==
    /\ pc = "build"
    /\ frame.ops < MaxBuildOps
    /\ \E begin_id \in BuildIds, end_id \in {None} \cup {Some(x) : x \in BuildIds},
          weight \in BuildWeights \cup {1} :
         /\ end_id = None <=> weight = 1
         /\ LET g == add_to_graph(TheGraph, begin_id, end_id, weight)
            IN /\ size' = g.size
               /\ vertices' = g.vertices
               /\ frame' = [op |-> "add_to_graph", ops |-> frame.ops + 1,
                            imports |-> frame.imports,
                            begin_id |-> begin_id, end_id |-> end_id, weight |-> weight,
                            old |-> IF end_id = None THEN None
                                    ELSE get_edge_by_ids(TheGraph, begin_id, end_id[1])]
    /\ result' = <<>>
    /\ UNCHANGED <<pc, raised>>

BuildImport ==
    /\ pc = "build"
    /\ frame.ops < MaxBuildOps
    /\ frame.imports < MaxImports
    /\ \E matrix \in BuildMatrices :
         LET g == matrix2graph(TheGraph, matrix)
         IN /\ size' = g.size
            /\ vertices' = g.vertices
            /\ frame' = [op |-> "matrix2graph", ops |-> frame.ops + 1,
                         imports |-> frame.imports + 1, matrix |-> matrix]
    /\ result' = <<>>
    /\ UNCHANGED <<pc, raised>>

\* graph2matrix(): result holds the matrix
BuildExport ==
    /\ pc = "build"
    /\ frame' = [op |-> "graph2matrix", ops |-> frame.ops, imports |-> frame.imports]
    /\ result' = graph2matrix(TheGraph)
    /\ UNCHANGED <<size, vertices, pc, raised>>

\* pq = PriorityQueue(); pq.push(0, vertex); pq.pop()
BuildVisit ==
    /\ pc = "build"
    /\ frame.ops < MaxBuildOps
    /\ \E id \in VertexIds(TheGraph) :
         LET r == pop(push(EmptyQueue, 0, id))
         IN /\ vertices' = SetVisited(vertices, r.value[2])
            /\ frame' = [op |-> "pop", ops |-> frame.ops + 1, imports |-> frame.imports]
    /\ result' = <<>>
    /\ UNCHANGED <<size, pc, raised>>

BuildUnvisit ==
    /\ pc = "build"
    /\ \E i \in 1..Len(vertices) : vertices[i].visited
    /\ vertices' = unvisit_vertices(vertices)
    /\ frame' = [op |-> "unvisit_vertices", ops |-> frame.ops, imports |-> frame.imports]
    /\ result' = <<>>
    /\ UNCHANGED <<size, pc, raised>>

----------------------------------------------------------------------------
(* build_path on its own: a caller that passes any dict of vertex ids as
   back_edges *)

WeightsP == {1, 5}

\* the dicts with some vertex ids as keys and vertex ids as values
BackEdges(V) == UNION {[K -> V] : K \in SUBSET V}

BuildPathCall ==
    /\ pc = "idle"
    /\ \E back_edges \in BackEdges(VertexIds(TheGraph)),
          begin_id \in VertexIds(TheGraph), end_id \in VertexIds(TheGraph) :
         /\ frame' = [op |-> "build_path", back_edges |-> back_edges,
                      begin_id |-> begin_id, end_id |-> end_id]
         /\ Finish(build_path(TheGraph, back_edges, begin_id, end_id))
    /\ UNCHANGED <<size, vertices>>

----------------------------------------------------------------------------
(* Reference definitions the searches are compared with *)

Min(S) == CHOOSE x \in S : \A y \in S : x <= y

\* the function f, tabulated (@@ makes TLC compute every value once)
Table(f) == f @@ EmptyDict

\* get_all_edges: the <<begin_id, end_id, weight>> triples
get_all_edges(g) ==
    UNION {{<<g.vertices[i].id, g.vertices[i].adj[k][1], g.vertices[i].adj[k][2]>> :
              k \in 1..Len(g.vertices[i].adj)} : i \in 1..Len(g.vertices)}

Reversed(E) == {<<e[2], e[1], e[3]>> : e \in E}
UnitWeights(E) == {<<e[1], e[2], 1>> : e \in E}

\* exhaustive baseline: d after `rounds` rounds of relaxing every edge
RECURSIVE RelaxAll(_, _, _)
RelaxAll(E, d, rounds) ==
    IF rounds = 0 THEN d
    ELSE RelaxAll(E,
                  Table([x \in DOMAIN d |->
                      Min({d[x]} \cup {d[e[1]] + e[3] :
                                         e \in {y \in E : y[2] = x /\ d[y[1]] < Infinity}})]),
                  rounds - 1)

\* least total weight of a walk from s to each vertex (Infinity: none)
ShortestFrom(V, E, s) ==
    RelaxAll(E, [x \in V |-> IF x = s THEN 0 ELSE Infinity], Cardinality(V))

\* least total weight of a walk from each vertex to t
ShortestTo(V, E, t) == ShortestFrom(V, Reversed(E), t)

\* reference Dijkstra: settle the closest unsettled vertex, relax its edges
RECURSIVE DijkstraLoop(_, _, _)
DijkstraLoop(E, d, unsettled) ==
    IF unsettled = {} \/ \A x \in unsettled : d[x] = Infinity THEN d
    ELSE LET u == CHOOSE x \in unsettled : \A y \in unsettled : d[x] <= d[y]
             out == {e \in E : e[1] = u}
         IN DijkstraLoop(E,
                Table([x \in DOMAIN d |->
                    Min({d[x]} \cup {d[u] + e[3] : e \in {y \in out : y[2] = x}})]),
                unsettled \ {u})

Dijkstra(V, E, s) == DijkstraLoop(E, [x \in V |-> IF x = s THEN 0 ELSE Infinity], V)

\* path is a list of ids from begin_id to end_id along edges of g
IsPathOf(g, path, begin_id, end_id) ==
    /\ Len(path) >= 1
    /\ path[1] = begin_id
    /\ path[Len(path)] = end_id
    /\ \A i \in 1..(Len(path) - 1) : get_edge_by_ids(g, path[i], path[i + 1]) # None

RECURSIVE PathWeight(_, _, _)
PathWeight(g, path, i) ==
    IF i >= Len(path) THEN 0
    ELSE get_edge_by_ids(g, path[i], path[i + 1])[1][3] + PathWeight(g, path, i + 1)

----------------------------------------------------------------------------
(* Specifications *)

\* any metric with values up to MaxH
AnyMetric(end_id) == [x \in VertexIds(TheGraph) |-> MaxH]

\* the least weight of a walk from each vertex to end_id
Remaining(end_id) == ShortestTo(VertexIds(TheGraph), get_all_edges(TheGraph), end_id)

\* the admissible metrics with values up to MaxHA: metric(v, end) is at most
\* the least weight of a walk from v to end, and so 0 at end.  A search from
\* the first vertex that cannot reach end_id is run with the zero metric only.
AdmissibleMetric(end_id) ==
    LET remaining == Remaining(end_id)
    IN [x \in VertexIds(TheGraph) |->
           IF remaining[AllIds[1]] >= Infinity THEN 0
           ELSE Min({MaxHA, remaining[x]})]

\* the largest values of the metrics for each end_id
AnyCaps == [end_id \in VertexIds(TheGraph) |-> AnyMetric(end_id)]
AdmissibleCaps == [end_id \in VertexIds(TheGraph) |-> AdmissibleMetric(end_id)]

AnyId == VertexIds(TheGraph) \cup {AbsentId}

Init == InitWith(NumV, MaxEdges, Weights)

Next ==
    \/ BfsCall
    \/ BfsStep
    \/ BfsExhausted
    \/ AStarCall(AnyId, AnyId, AnyCaps)
    \/ AStarStep(AnyCaps)
    \/ AStarExhausted
    \/ TollCall
    \/ TollStep
    \/ TollExhausted

Spec == Init /\ [][Next]_vars

(* The searches as the one thread that calls them runs them: a call that has
   reached its while loop takes the next iteration, or leaves the loop, until
   it ends.  The graphs are small ones with self-loops, cycles and edges of
   weight 0; the calls are those with both ids in the graph. *)

NumVL == 2
MaxEdgesL == 3
WeightsL == {0, 1}

SearchStep ==
    \/ BfsStep
    \/ BfsExhausted
    \/ AStarStep(AnyCaps)
    \/ AStarExhausted
    \/ TollStep
    \/ TollExhausted

InitLive == InitWith(NumVL, MaxEdgesL, WeightsL)

NextLive ==
    \/ BfsCall /\ pc' = "bfs"
    \/ AStarCall(AnyId, AnyId, AnyCaps) /\ pc' = "a_star"
    \/ TollCall /\ pc' = "toll"
    \/ SearchStep

SpecLive == InitLive /\ [][NextLive]_vars /\ WF_vars(SearchStep)

(* Calls one after another on one graph: a search that has ended hands its
   result to the caller, who may clear the flags with unvisit_vertices and
   calls again. *)

MaxEdgesR == 2

\* the caller has the result of the call, the graph stays as the call left it
SearchReturn ==
    /\ pc \in {"done", "raised", "diverged"}
    /\ pc' = "idle"
    /\ frame' = [op |-> "none"]
    /\ result' = <<>>
    /\ raised' = ""
    /\ UNCHANGED <<size, vertices>>

\* unvisit_vertices() between two calls
Unvisit ==
    /\ pc = "idle"
    /\ vertices' = unvisit_vertices(vertices)
    /\ UNCHANGED <<size, pc, frame, result, raised>>

InitAgain == InitWith(NumV, MaxEdgesR, Weights)

NextAgain ==
    \/ Next
    \/ SearchReturn
    \/ Unvisit

SpecAgain == InitAgain /\ [][NextAgain]_vars

(* a_star alone, with admissible metrics, from the first vertex of larger
   graphs.  The searches treat ids as opaque keys, so a call from another
   vertex is this one up to the names of the vertices. *)

InitAStar == InitWith(NumVA, MaxEdgesA, WeightsA)

NextAStar ==
    \/ AStarCall({AllIds[1]}, VertexIds(TheGraph), AdmissibleCaps)
    \/ AStarStep(AdmissibleCaps)
    \/ AStarExhausted

SpecAStar == InitAStar /\ [][NextAStar]_vars

(* building a graph, from Graph() *)

InitBuild ==
    /\ size = EmptyGraph.size
    /\ vertices = EmptyGraph.vertices
    /\ pc = "build"
    /\ frame = [op |-> "none", ops |-> 0, imports |-> 0]
    /\ result = <<>>
    /\ raised = ""

NextBuild ==
    \/ BuildAdd
    \/ BuildImport
    \/ BuildExport
    \/ BuildVisit
    \/ BuildUnvisit

SpecBuild == InitBuild /\ [][NextBuild]_vars

(* build_path on its own *)

InitPath == InitWith(NumV, MaxEdges, WeightsP)

NextPath == BuildPathCall

SpecPath == InitPath /\ [][NextPath]_vars

(* the priority queue on its own, its items the vertices of an edgeless graph *)

InitQueue == InitWith(NumV, 0, Weights)

NextQueue ==
    \/ QueueNew
    \/ QueuePush
    \/ QueueUpdate
    \/ QueuePop

SpecQueue == InitQueue /\ [][NextQueue]_vars

----------------------------------------------------------------------------
(* Claims *)

Called(op) == frame.op = op /\ pc = "done"
InGraph(id) == id \in VertexIds(TheGraph)
BothInGraph == InGraph(frame.begin_id) /\ InGraph(frame.end_id)

\* fewest edges from begin_id to each vertex (Infinity: unreachable)
Hops == ShortestFrom(VertexIds(TheGraph), UnitWeights(get_all_edges(TheGraph)), frame.begin_id)
\* least total weight from begin_id to each vertex (Infinity: unreachable)
Lightest == ShortestFrom(VertexIds(TheGraph), get_all_edges(TheGraph), frame.begin_id)
Reachable == BothInGraph /\ Hops[frame.end_id] < Infinity

\* C1: when end_id is reachable from begin_id, bfs returns a path from
\* begin_id to end_id along edges of the graph whose number of edges is the
\* least number of edges of any such path, whatever the weights.
C1_BfsFewestEdges ==
    (Called("bfs") /\ Reachable) =>
        /\ IsPathOf(TheGraph, result[1], frame.begin_id, frame.end_id)
        /\ Len(result[1]) - 1 = Hops[frame.end_id]

\* a bfs that returned a path heavier than the lightest one: the weights
\* would have chosen another path
C1_Witness ==
    /\ Called("bfs") /\ Reachable
    /\ Len(result[1]) >= 2
    /\ result[2] > Lightest[frame.end_id]

\* the graph built by adding A->B weight 1, B->C weight 1, A->C weight 5
ScenarioGraph ==
    add_to_graph(add_to_graph(add_to_graph(EmptyGraph, "A", Some("B"), 1),
                              "B", Some("C"), 1),
                 "A", Some("C"), 5)

ScenarioBfs ==
    /\ Called("bfs")
    /\ frame.begin_id = "A" /\ frame.end_id = "C"
    /\ [size |-> size, vertices |-> vertices] = ScenarioGraph

\* C9 as stated: on the scenario graph bfs(A, C) returns ([A, B, C], 2).
C9_AsStated == ScenarioBfs => result = <<<<"A", "B", "C">>, 2>>

\* C9 amended: on the scenario graph bfs(A, C) returns the one-edge path
\* ([A, C], 5).
C9_BfsScenario == ScenarioBfs => result = <<<<"A", "C">>, 5>>

C9_Witness == ScenarioBfs /\ Len(frame.dequeued) = 3

\* the search has nothing to find: an endpoint is no vertex, or end_id is
\* unreachable from begin_id
NothingToFind == frame.op \in {"bfs", "a_star", "toll"} /\ ~Reachable

\* C10: a search with an absent endpoint or an unreachable target raises
\* nothing and returns its not-found value: ([], 0.0) from bfs and a_star,
\* (None, None) from tollways_algorithm.
C10_NotFoundIsNormal ==
    NothingToFind =>
        /\ pc \notin {"raised", "diverged"}
        /\ pc = "done" => result = IF frame.op = "toll" THEN NoneNone ELSE NotFound

\* a tollways_algorithm call between two vertices that popped several states
\* before its queue ran empty
C10_Witness ==
    /\ Called("toll") /\ BothInGraph /\ ~Reachable
    /\ Len(frame.popped) >= 2
    /\ result = NoneNone

\* the id the client holds with the least <<priority, stamp>>
FirstLive(live) ==
    CHOOSE id \in DOMAIN live :
        \A other \in DOMAIN live :
            \/ other = id
            \/ live[id][1] < live[other][1]
            \/ (live[id][1] = live[other][1] /\ live[id][2] < live[other][2])

\* C7: a pop returns, with its priority, the queued item of least priority,
\* and among those of equal priority the one pushed or updated first; it does
\* not raise.
C7_PopReturnsMinimum ==
    /\ frame.op = "queue" => pc # "raised"
    /\ (frame.op = "queue" /\ frame.last.op = "pop") =>
          frame.last.value = <<frame.last.live[FirstLive(frame.last.live)][1],
                               FirstLive(frame.last.live)>>

\* a pop that chose between two items of equal priority, with an invalidated
\* node still in the heap
C7_Witness ==
    /\ frame.op = "queue" /\ frame.last.op = "pop"
    /\ \E id \in DOMAIN frame.live : frame.live[id][1] = frame.last.value[1]
    /\ \E n \in frame.pq.data : n[3] = None

LiveNodes(pq, id) == {n \in pq.data : n[3] = Some(id)}

\* C8: every item has at most one node in the heap that is not invalidated,
\* the locator's keys are the items that have one, and the locator maps each
\* to that node.
C8_OneLiveNodePerItem ==
    frame.op = "queue" =>
        /\ \A id \in VertexIds(TheGraph) : Cardinality(LiveNodes(frame.pq, id)) <= 1
        /\ DOMAIN frame.pq.locator = {id \in VertexIds(TheGraph) : LiveNodes(frame.pq, id) # {}}
        /\ \A id \in DOMAIN frame.pq.locator : frame.pq.locator[id] \in LiveNodes(frame.pq, id)

\* after an update the item's old node is in the heap, invalidated, beside
\* its new one
C8_Witness ==
    /\ frame.op = "queue" /\ frame.last.op = "update"
    /\ LiveNodes(frame.pq, frame.last.value[2]) # {}
    /\ \E n \in frame.pq.data : n[3] = None /\ n[1] < frame.last.value[1]

\* every value drawn for metric(v, end) is at most the least weight of a walk
\* from v to end
Admissible == \A x \in DOMAIN frame.metric : frame.metric[x] <= Remaining(frame.end_id)[x]

\* metric(u, end) > weight(u, v) + metric(v, end) on some edge
Inconsistent ==
    \E e \in get_all_edges(TheGraph) :
        /\ e[1] \in DOMAIN frame.metric /\ e[2] \in DOMAIN frame.metric
        /\ frame.metric[e[1]] > e[3] + frame.metric[e[2]]

\* C2: with an admissible metric, consistent or not, and end_id reachable,
\* a_star returns a path from begin_id to end_id along edges of the graph,
\* with its total weight, and that weight is the least weight of any walk
\* from begin_id to end_id.
C2_AStarOptimal ==
    (Called("a_star") /\ Reachable /\ Admissible) =>
        /\ IsPathOf(TheGraph, result[1], frame.begin_id, frame.end_id)
        /\ result[2] = PathWeight(TheGraph, result[1], 1)
        /\ result[2] = Lightest[frame.end_id]

\* an a_star under an inconsistent admissible metric that popped a vertex,
\* found a lighter way to it later and popped it again
C2_Witness ==
    /\ Called("a_star") /\ Reachable /\ Admissible /\ Inconsistent
    /\ \E i, j \in 1..Len(frame.popped) : i < j /\ frame.popped[i] = frame.popped[j]

ZeroMetric == \A x \in DOMAIN frame.metric : frame.metric[x] = 0

\* C3: with the zero metric and end_id reachable, the cost a_star returns is
\* the distance a reference Dijkstra computes from begin_id to end_id.
C3_AStarZeroIsDijkstra ==
    (Called("a_star") /\ Reachable /\ ZeroMetric) =>
        result[2] = Dijkstra(VertexIds(TheGraph), get_all_edges(TheGraph),
                             frame.begin_id)[frame.end_id]

\* a zero-metric a_star whose result is lighter than the edge from begin_id
\* to end_id: the end vertex was queued and then updated
C3_Witness ==
    /\ Called("a_star") /\ Reachable /\ ZeroMetric
    /\ get_edge_by_ids(TheGraph, frame.begin_id, frame.end_id) # None
    /\ result[2] < get_edge_by_ids(TheGraph, frame.begin_id, frame.end_id)[1][3]

\* floor(w / 2)
Half(w) == CHOOSE h \in 0..w : 2 * h <= w /\ w < 2 * h + 2

\* the states <<vertex, coupons used>> and the moves between them: an edge
\* at its weight, or at half of it for one more coupon
Layered(E, budget) ==
    {<<<<e[1], k>>, <<e[2], k>>, e[3]>> : e \in E, k \in 0..budget}
    \cup {<<<<e[1], k>>, <<e[2], k + 1>>, Half(e[3])>> : e \in E, k \in 0..(budget - 1)}

\* the least cost of a walk from begin_id to end_id with at most budget of
\* its edges discounted (Infinity: no walk)
Cheapest(budget) ==
    LET d == ShortestFrom(VertexIds(TheGraph) \X (0..budget),
                          Layered(get_all_edges(TheGraph), budget),
                          <<frame.begin_id, 0>>)
    IN Min({d[<<frame.end_id, k>>] : k \in 0..budget})

\* C4: when target_id is reachable, the cost tollways_algorithm returns is
\* the least, over the walks from start_id to target_id and the choices of at
\* most `coupons` of their edges, of the sum of the weights, the chosen edges
\* counting floor(weight / 2).
C4_TollOptimal ==
    (Called("toll") /\ Reachable) => result[1] = Some(Cheapest(frame.coupons))

\* a call that used a coupon, paid less than the lightest undiscounted path
\* costs and popped at least three states
C4_Witness ==
    /\ Called("toll") /\ Reachable
    /\ result[2][1] >= 1
    /\ result[1][1] < Lightest[frame.end_id]
    /\ Len(frame.popped) >= 3

\* C5: with no coupons the cost tollways_algorithm returns is the least
\* total weight of a path from start_id to target_id.
C5_TollZeroBudgetIsShortest ==
    (Called("toll") /\ Reachable /\ frame.coupons = 0) =>
        result[1] = Some(Lightest[frame.end_id])

\* a call without coupons on a path of two edges that a discount would have
\* made cheaper
C5_Witness ==
    /\ Called("toll") /\ Reachable /\ frame.coupons = 0
    /\ Len(frame.popped) >= 3
    /\ Cheapest(1) < result[1][1]

\* the cost a call with the frame's endpoints and budget b returns
CostWith(b) ==
    tollways_algorithm(TheGraph, frame.begin_id, frame.end_id, b).value[1][1]

\* C6: the cost tollways_algorithm returns for a budget is at most the cost
\* it returns for any smaller budget.
C6_TollMonotone ==
    (Called("toll") /\ Reachable) =>
        \A b \in 0..(frame.coupons - 1) : result[1][1] <= CostWith(b)

\* a call that returned less than the call with one coupon fewer, which
\* returned less than the call with two fewer
C6_Witness ==
    /\ Called("toll") /\ Reachable /\ frame.coupons = 2
    /\ result[1][1] < CostWith(1)
    /\ CostWith(1) < CostWith(0)

----------------------------------------------------------------------------
(* Claims about building a graph, under SpecBuild *)

Built(op) == pc = "build" /\ frame.op = op

\* the place of id in self.vertices
PlaceOf(id) == CHOOSE i \in 1..Len(vertices) : vertices[i].id = id

\* C11: for a non-empty graph, matrix2graph on a new Graph of the matrix
\* graph2matrix returned gives the same vertex ids, the same size and the
\* same weighted edges.
C11_MatrixRoundTrip ==
    (Built("graph2matrix") /\ Len(vertices) > 0) =>
        LET copy == matrix2graph(EmptyGraph, result)
        IN /\ VertexIds(copy) = VertexIds(TheGraph)
           /\ copy.size = size
           /\ get_all_edges(copy) = get_all_edges(TheGraph)

\* the export of a graph with an isolated vertex, a self-loop, an edge of
\* weight 0 and an adjacency map that is not in the order of the vertices
C11_Witness ==
    /\ Built("graph2matrix") /\ result # None
    /\ \E i \in 1..Len(vertices) :
         /\ vertices[i].adj = <<>>
         /\ \A e \in get_all_edges(TheGraph) : e[2] # vertices[i].id
    /\ \E e \in get_all_edges(TheGraph) : e[1] = e[2]
    /\ \E e \in get_all_edges(TheGraph) : e[3] = 0
    /\ \E i \in 1..Len(vertices) :
         \E k, l \in 1..Len(vertices[i].adj) :
            k < l /\ PlaceOf(vertices[i].adj[l][1]) < PlaceOf(vertices[i].adj[k][1])

\* C12: after matrix2graph(matrix), every cell (i, j) that holds a weight is
\* an edge of that weight from the vertex of row header i to the vertex of
\* column header j.
C12_CellsBecomeEdges ==
    Built("matrix2graph") =>
        LET m == frame.matrix
        IN \A i, j \in 2..Len(m) :
              m[i][j] # None =>
                 get_edge_by_ids(TheGraph, m[i][1], m[1][j])
                    = Some(<<m[i][1], m[1][j], m[i][j][1]>>)

\* C13: the size counter is the number of entries of the vertex map, whose
\* keys are distinct.
C13_SizeIsCardinality ==
    pc = "build" =>
        /\ size = Len(vertices)
        /\ Cardinality(VertexIds(TheGraph)) = Len(vertices)

\* after a matrix import, an add_to_graph call that repeats an existing
\* self-loop
C13_Witness ==
    /\ Built("add_to_graph") /\ frame.imports = 1
    /\ frame.end_id = Some(frame.begin_id)
    /\ frame.old # None

\* C14: every key of an adjacency map is a key of the vertex map.
C14_AdjacencyKeysAreVertices ==
    pc = "build" =>
        \A i \in 1..Len(vertices) :
           \A k \in 1..Len(vertices[i].adj) : InGraph(vertices[i].adj[k][1])

\* after a matrix import, an add_to_graph call with an end_id that no matrix
\* names: the call created the end vertex
C14_Witness ==
    /\ Built("add_to_graph") /\ frame.imports = 1 /\ frame.ops = 2
    /\ frame.end_id = Some(AllIds[NumV])
    /\ frame.begin_id # AllIds[NumV]

\* a step that is an add_to_graph call
AddStep == pc = "build" /\ frame'.op = "add_to_graph" /\ frame'.ops = frame.ops + 1

\* C15: add_to_graph(b, e, w) leaves one b->e edge, of weight w, which
\* get_edge_by_ids returns; every other edge, every vertex there was and its
\* visited flag are as before, and no vertex but b and e is new.
C15_AddEdgeFrame ==
    [][(AddStep /\ frame'.end_id # None) =>
        LET b == frame'.begin_id
            e == frame'.end_id[1]
            before == [size |-> size, vertices |-> vertices]
            after == [size |-> size', vertices |-> vertices']
        IN /\ get_edge_by_ids(after, b, e) = Some(<<b, e, frame'.weight>>)
           /\ Cardinality({k \in 1..Len(AdjOf(after, b)) : AdjOf(after, b)[k][1] = e}) = 1
           /\ \A x, y \in BuildIds :
                 <<x, y>> # <<b, e>> =>
                    get_edge_by_ids(after, x, y) = get_edge_by_ids(before, x, y)
           /\ VertexIds(after) = VertexIds(before) \cup {b, e}
           /\ \A i \in 1..Len(vertices) :
                 /\ vertices'[i].id = vertices[i].id
                 /\ vertices'[i].visited = vertices[i].visited]_vars

\* an add_to_graph call that gave an edge another weight, in a graph with a
\* visited vertex and another edge
C15_Witness ==
    /\ Built("add_to_graph")
    /\ frame.old # None /\ frame.old[1][3] # frame.weight
    /\ \E i \in 1..Len(vertices) : vertices[i].visited
    /\ Cardinality(get_all_edges(TheGraph)) >= 2

----------------------------------------------------------------------------
(* Claims about build_path, under SpecPath *)

\* following back_edges from x reaches begin_id within n entries, every
\* entry naming an edge of the graph
RECURSIVE ChainReaches(_, _, _, _)
ChainReaches(back_edges, x, begin_id, n) ==
    \/ x = begin_id
    \/ /\ n > 0
       /\ x \in DOMAIN back_edges
       /\ get_edge_by_ids(TheGraph, back_edges[x], x) # None
       /\ ChainReaches(back_edges, back_edges[x], begin_id, n - 1)

\* back_edges connects begin_id to end_id
Connects ==
    ChainReaches(frame.back_edges, frame.end_id, frame.begin_id,
                 Cardinality(DOMAIN frame.back_edges))

\* C16: build_path with a back_edges that does not connect begin_id to end_id
\* (an entry is missing, an entry names no edge, or the chain cycles) ends in
\* an error: it returns no path and it does not run forever.
C16_BadChainRaises ==
    (frame.op = "build_path" /\ ~Connects) => pc = "raised"

----------------------------------------------------------------------------
(* Claims about the searches, under Spec *)

\* C17: a non-empty path that bfs or a_star returns begins with begin_id,
\* ends with end_id, follows edges of the graph, and the total returned with
\* it is the sum of the weights of these edges (0 for the one-vertex path of
\* a search from a vertex to itself).
C17_ReturnedPathIsAPath ==
    ((Called("bfs") \/ Called("a_star")) /\ result[1] # <<>>) =>
        /\ IsPathOf(TheGraph, result[1], frame.begin_id, frame.end_id)
        /\ result[2] = PathWeight(TheGraph, result[1], 1)
        /\ frame.begin_id = frame.end_id => result = <<<<frame.begin_id>>, 0>>

\* a_star returned a path of two edges of different weights whose reverse
\* edges are in the graph too
C17_Witness ==
    /\ Called("a_star") /\ Len(result[1]) = 3
    /\ get_edge_by_ids(TheGraph, result[1][1], result[1][2])[1][3]
          # get_edge_by_ids(TheGraph, result[1][2], result[1][3])[1][3]
    /\ get_edge_by_ids(TheGraph, result[1][2], result[1][1]) # None

\* a tollways_algorithm call that reached its while loop
InTollLoop == frame.op = "toll" /\ BothInGraph

\* the key (vertex id, coupons used) of a node of the toll queue
KeyOf(node) == <<node[4][1], node[2]>>

\* the live nodes of the toll queue with a key
TollLiveNodes(pq, key) == {n \in pq.data : n[4] # None /\ KeyOf(n) = key}

\* C18: during a tollways_algorithm call the queue holds at most one live
\* node for each key (vertex id, coupons used), and the locator maps exactly
\* the keys that have a live node, each to that node.
C18_OneLiveNodePerState ==
    InTollLoop =>
        /\ \A n \in frame.pq.data :
              n[4] # None => /\ TollLiveNodes(frame.pq, KeyOf(n)) = {n}
                             /\ KeyOf(n) \in DOMAIN frame.pq.locator
        /\ \A key \in DOMAIN frame.pq.locator :
              TollLiveNodes(frame.pq, key) = {frame.pq.locator[key]}

\* the costs of the records pushed so far for a key: those popped and
\* expanded or returned, those popped and discarded, those still queued
PushedCosts(key) ==
    {frame.popped[i][1] : i \in {j \in 1..Len(frame.popped) :
                                    <<frame.popped[j][3], frame.popped[j][2]>> = key}}
    \cup {frame.discarded[i][1] : i \in {j \in 1..Len(frame.discarded) :
                                             KeyOf(frame.discarded[j]) = key}}
    \cup {n[1] : n \in TollLiveNodes(frame.pq, key)}

\* C19: the record of a key that a tollways_algorithm call expands or returns
\* has the least cost of all records pushed for the key, no key is expanded
\* or returned twice, and a record that is discarded is a later record of a
\* key that was expanded.
C19_FirstPopIsCheapest ==
    InTollLoop =>
        /\ \A i \in 1..Len(frame.popped) :
              LET key == <<frame.popped[i][3], frame.popped[i][2]>>
              IN /\ \A c \in PushedCosts(key) : frame.popped[i][1] <= c
                 /\ \A j \in 1..Len(frame.popped) :
                       <<frame.popped[j][3], frame.popped[j][2]>> = key => j = i
        /\ \A i \in 1..Len(frame.discarded) :
              \E j \in 1..Len(frame.popped) :
                 /\ <<frame.popped[j][3], frame.popped[j][2]>> = KeyOf(frame.discarded[i])
                 /\ frame.popped[j][1] <= frame.discarded[i][1]

\* a call that discarded a record of a state it had expanded at a lower
\* cost, and popped another state afterwards
C19_Witness ==
    /\ InTollLoop
    /\ \E i \in 1..Len(frame.discarded) :
         \E j \in 1..Len(frame.popped) :
            /\ <<frame.popped[j][3], frame.popped[j][2]>> = KeyOf(frame.discarded[i])
            /\ frame.popped[j][1] < frame.discarded[i][1]

\* the ids a bfs call has put on its queue, in order: those dequeued, then
\* those queued
Enqueued == frame.dequeued \o [i \in 1..Len(frame.q) |-> frame.q[i][1]]

\* C20: a bfs call puts no vertex on its queue twice, and dequeues nothing
\* after end_id: end_id is the last id dequeued, and the call has ended.
C20_BfsEnqueuesOnce ==
    (frame.op = "bfs" /\ BothInGraph) =>
        /\ \A i, j \in 1..Len(Enqueued) : Enqueued[i] = Enqueued[j] => i = j
        /\ \A i \in 1..Len(frame.dequeued) :
              frame.dequeued[i] = frame.end_id =>
                 i = Len(frame.dequeued) /\ pc # "bfs"

\* a bfs call on a graph with a self-loop and a cycle of two edges that
\* returned a path of an edge or more
C20_Witness ==
    /\ Called("bfs") /\ Len(result[1]) >= 2
    /\ \E e \in get_all_edges(TheGraph) : e[1] = e[2]
    /\ \E e \in get_all_edges(TheGraph) :
         e[1] # e[2] /\ get_edge_by_ids(TheGraph, e[2], e[1]) # None

----------------------------------------------------------------------------
(* Claims about the searches as they run, under SpecLive *)

Searching == pc \in {"bfs", "a_star", "toll"}

\* C21: a bfs, a_star or tollways_algorithm call that has reached its while
\* loop eventually returns.
C21_SearchesReturn == Searching ~> (pc = "done")

\* a search between two vertices that returned on its target, on a graph
\* with a self-loop, a cycle of two edges and an edge of weight 0
C21_Witness ==
    /\ pc = "done" /\ frame.op \in {"bfs", "a_star", "toll"} /\ BothInGraph
    /\ frame.begin_id # frame.end_id
    /\ result[1] # <<>>
    /\ \E e \in get_all_edges(TheGraph) : e[1] = e[2]
    /\ \E e \in get_all_edges(TheGraph) :
         e[1] # e[2] /\ get_edge_by_ids(TheGraph, e[2], e[1]) # None
    /\ \E e \in get_all_edges(TheGraph) : e[3] = 0

\* the ids of the vertices whose visited flag is set
Flagged(vs) == {vs[i].id : i \in {j \in 1..Len(vs) : vs[j].visited}}

\* vs and ws are the same vertices with the same edges and weights
SameButFlags(vs, ws) == unvisit_vertices(vs) = unvisit_vertices(ws)

PoppedIds == {frame.popped[k] : k \in 1..Len(frame.popped)}

\* C22: a_star changes nothing in the graph except visited flags: started
\* with all flags clear, after it returns a vertex's flag is true exactly if
\* the search popped that vertex, and the vertex set, the size, the edges and
\* the weights are as before; bfs (and toll_search) change nothing, flags
\* included; a flag that is set stays set until unvisit_vertices clears all
\* of them.
C22_OnlyFlagsChange ==
    [][/\ size' = size
       /\ SameButFlags(vertices, vertices')
       /\ (frame'.op \in {"bfs", "toll"} => vertices' = vertices)
       /\ (Flagged(vertices) \subseteq Flagged(vertices')
              \/ (pc = "idle" /\ pc' = "idle" /\ Flagged(vertices') = {}))
       /\ ((pc' = "done" /\ frame'.op = "a_star" /\ "flagged" \in DOMAIN frame'
               /\ frame'.flagged = {})
              => Flagged(vertices') = {frame'.popped[k] : k \in 1..Len(frame'.popped)})
      ]_vars

\* an a_star started with all flags clear has returned a path and left
\* clear the flag of a vertex that it queued and never popped
C22_Witness ==
    /\ Called("a_star") /\ BothInGraph
    /\ frame.flagged = {}
    /\ Len(result[1]) = 2
    /\ Flagged(vertices) = PoppedIds
    /\ \E x \in VertexIds(TheGraph) \ PoppedIds : frame.shortest[x] < Infinity


\* the nodes of the heap that still hold a vertex
HeldNodes(data) == {n \in data : n[Len(n)] # None}

\* C23: in a PriorityQueue used as a_star uses it, between operations empty
\* is true exactly when no live node remains, after every pop the heap is
\* empty or has a live node at its front, and no pop of a queue that is not
\* empty raises.
C23_EmptyIffNoLiveNode ==
    /\ raised = ""
    /\ frame.op = "queue" =>
          /\ empty(frame.pq) <=> HeldNodes(frame.pq.data) = {}
          /\ empty(frame.pq) <=> DOMAIN frame.live = {}
          /\ frame.last.op = "pop" =>
                \/ frame.pq.data = {}
                \/ HeapMin(frame.pq.data) \in HeldNodes(frame.pq.data)

\* after a pop the heap holds a live node at its front and an invalidated
\* node behind it
C23_Witness ==
    /\ frame.op = "queue" /\ frame.last.op = "pop"
    /\ frame.pq.data # {}
    /\ HeapMin(frame.pq.data) \in HeldNodes(frame.pq.data)
    /\ frame.pq.data # HeldNodes(frame.pq.data)

\* C24: when tollways_algorithm returns (cost, k), k is at most the budget
\* and is the smallest number of coupons with which the target can be
\* reached at that cost, the least cost there is.
C24_FewestCoupons ==
    (Called("toll") /\ Reachable) =>
        /\ result[2][1] <= frame.coupons
        /\ result[1][1] = Cheapest(frame.coupons)
        /\ Cheapest(result[2][1]) = result[1][1]
        /\ \A j \in 0..(result[2][1] - 1) : Cheapest(j) > result[1][1]

\* the call returned with a coupon used and a coupon left, and it had reached
\* the target at the same cost with more coupons
C24_Witness ==
    /\ Called("toll") /\ Reachable
    /\ result[2][1] >= 1
    /\ \E j \in (result[2][1] + 1)..frame.coupons :
          /\ <<frame.end_id, j>> \in DOMAIN frame.costs
          /\ frame.costs[<<frame.end_id, j>>] = result[1][1]

\* the graph with every flag clear
Cleared == [size |-> size, vertices |-> unvisit_vertices(vertices)]

\* how the call of the frame ended
Outcome ==
    [kind |-> IF pc = "done" THEN "return" ELSE IF pc = "raised" THEN "raise" ELSE "diverge",
     value |-> IF pc = "done" THEN result ELSE IF pc = "raised" THEN raised ELSE <<>>]

SameOutcome(o) == Outcome.kind = o.kind /\ Outcome.value = o.value

\* a metric that has the values the search asked for, and 0 elsewhere
AskedMetric == Merge(frame.metric, [x \in VertexIds(TheGraph) |-> 0])

\* C25: the value bfs, a_star and toll_search return does not depend on the
\* visited flags at call time: a call on a graph with any flags set ends as
\* the same call on the graph with every flag clear.
C25_FlagsDoNotMatter ==
    (pc \in {"done", "raised", "diverged"}) =>
        /\ frame.op = "bfs" =>
              SameOutcome(bfs(Cleared, frame.begin_id, frame.end_id))
        /\ frame.op = "a_star" =>
              SameOutcome(a_star(Cleared, frame.begin_id, frame.end_id, AskedMetric))
        /\ frame.op = "toll" =>
              SameOutcome(tollways_algorithm(Cleared, frame.begin_id, frame.end_id,
                                             frame.coupons))

\* a second a_star, started without unvisit_vertices on a graph where the
\* first left flags set, has returned a path through a vertex that was
\* flagged when it started
C25_Witness ==
    /\ Called("a_star") /\ BothInGraph
    /\ Len(result[1]) = 3
    /\ result[1][2] \in frame.flagged
    /\ frame.flagged # VertexIds(TheGraph)

====
